---- MODULE Spec2Model ----
(***************************************************************************)
(* Model of the football cache-and-reshape proxy (server.js, NodeCache     *)
(* revision).  Four refresh tasks poll the upstream API and write their    *)
(* result into one NodeCache instance; four GET handlers read the cache    *)
(* and shape the stored records.                                           *)
(*                                                                         *)
(* JavaScript objects are TLA+ functions whose DOMAIN is the set of        *)
(* properties that carry a value; a property that is missing or holds      *)
(* `undefined` is not in the DOMAIN (JSON.stringify drops it, and          *)
(* `a.x === b.y` treats both alike).  Time is Date.now() in milliseconds.  *)
(***************************************************************************)
EXTENDS Integers, Sequences, FiniteSets, TLC

VARIABLES
  API_TOKEN,   \* TRUE iff process.env.FOOTBALL_API_TOKEN is set
  now,         \* Date.now(), ms since the process started
  data,        \* appCache.data : key -> [v, t]; a key not in DOMAIN is absent
  checkDue,    \* when NodeCache's checkperiod timeout is due
  initAwait,   \* the fetch initializeData awaits; "unstarted" before, "done" after
  timerDue,    \* key -> when the setInterval timer of its task is due
  pending,     \* upstream calls in flight: [task, origin, at]
  ticks,       \* how many times the clock has advanced
  input,       \* Pipeline only: the upstream answer under study, [task, r, rev]
  output,      \* Pipeline only: the response the endpoint of the task gave
  health,      \* Recovery only: the resource under study and the phase of its
               \* upstream, [task, phase]
  storedAt     \* key -> Date.now() at the last appCache.set of the key, for the
               \* keys the cache holds

vars == <<API_TOKEN, now, data, checkDue, initAwait, timerDue, pending, ticks,
          input, output, health, storedAt>>

(***************************************************************************)
(* Bounds of the model.                                                    *)
(***************************************************************************)
\* The clock advances at most this many times.
MaxTicks == 1
\* Upstream calls followed together; a call started beyond this is one that
\* upstream never answers.
MaxPending == 2

(***************************************************************************)
(* Program constants.                                                      *)
(***************************************************************************)
stdTTL == 60 * 15
checkperiod == 120
\* node-cache keeps expiry in ms: livetime = Date.now() + ttl * 1000
TTLms == stdTTL * 1000

Keys == {"leagues", "teams", "liveScores", "fixtures"}

\* setInterval(fetch..., ms)
Interval(k) ==
  CASE k = "liveScores" -> 15 * 1000
    [] k = "fixtures"   -> 15 * 60 * 1000
    [] k = "leagues"    -> 60 * 60 * 1000
    [] k = "teams"      -> 60 * 60 * 1000

\* initializeData awaits the four fetches in this order
InitOrder == <<"leagues", "teams", "liveScores", "fixtures">>

InitIndex(k) == CHOOSE i \in 1..4 : InitOrder[i] = k

(***************************************************************************)
(* Objects.                                                                *)
(***************************************************************************)
Has(o, f) == f \in DOMAIN o

\* o restricted to the properties in fs that it has
Pick(o, fs) == [f \in (DOMAIN o) \cap fs |-> o[f]]

\* a.fa === b.fb, where a missing property is undefined
StrictEq(a, fa, b, fb) ==
  IF Has(a, fa) /\ Has(b, fb) THEN a[fa] = b[fb]
  ELSE ~Has(a, fa) /\ ~Has(b, fb)

\* the empty object, also standing for `undefined` where an object is expected
NoObj == [f \in {} |-> 0]

\* the least element of a nonempty set of indices
First(S) == CHOOSE i \in S : \A j \in S : i <= j

(***************************************************************************)
(* Projection of a league or team (fetchFootballLeagues/Teams):            *)
(* { id: x.id, name: x.name, image_path: x.image_path }                    *)
(***************************************************************************)
SummaryFields == {"id", "name", "image_path"}

\* Mutant: the id is read from another field of the upstream record
ProjectIdFromCountry(x) ==
  Pick(x, {"name", "image_path"})
    @@ (IF Has(x, "country_id") THEN [id |-> x.country_id] ELSE NoObj)

\* Mutant: the upstream record is stored as it came
ProjectKeepsAll(x) == x

Project(x) == Pick(x, SummaryFields)

ProjectAll(list) == [i \in 1..Len(list) |-> Project(list[i])]

(***************************************************************************)
(* Shaping of a live match and of a fixture (the route handlers).          *)
(***************************************************************************)
\* String.prototype.toUpperCase on the state strings upstream sends
toUpperCase(s) ==
  CASE s = "live"     -> "LIVE"
    [] s = "finished" -> "FINISHED"
    [] s = "NS"       -> "NS"
    [] s = ""         -> ""

\* p.meta.location === loc, for a participant that has meta
IsLocation(p, loc) == Has(p.meta, "location") /\ p.meta.location = loc

\* The indices at which participants.find(p => p.meta.location === loc)
\* stops: a match, or a participant without meta (reading .location of
\* undefined throws)
FindStops(ps, loc) ==
  {i \in 1..Len(ps) : ~Has(ps[i], "meta") \/ IsLocation(ps[i], loc)}

FindThrows(ps, loc) ==
  FindStops(ps, loc) # {} /\ ~Has(ps[First(FindStops(ps, loc))], "meta")

\* participants.find(p => p.meta.location === loc); NoObj when none
FindParticipant(ps, loc) ==
  IF FindStops(ps, loc) = {} THEN NoObj ELSE ps[First(FindStops(ps, loc))]

\* Mutant: the first score entry is taken, whoever it belongs to
FindScoreFirst(scores, team) == IF Len(scores) = 0 THEN NoObj ELSE scores[1]

\* scores.find(s => s.participant_id === team?.id); NoObj when none
FindScore(scores, team) ==
  LET hits == {i \in 1..Len(scores) : StrictEq(scores[i], "participant_id", team, "id")}
  IN IF hits = {} THEN NoObj ELSE scores[First(hits)]

\* periods?.find(p => p.type === '2hg'); NoObj when none
FindPeriod(m) ==
  IF ~Has(m, "periods") THEN NoObj
  ELSE LET hits == {i \in 1..Len(m.periods) :
                      Has(m.periods[i], "type") /\ m.periods[i].type = "2hg"}
       IN IF hits = {} THEN NoObj ELSE m.periods[First(hits)]

\* { name: o.f } when o.f has a value, {} otherwise
Opt(name, o, f) == IF Has(o, f) THEN [x \in {name} |-> o[f]] ELSE NoObj

\* x?.goals || 0
GoalsOr0(s) == IF Has(s, "goals") THEN s.goals ELSE 0

\* match.round?.name || 'N/A'
RoundName(m) ==
  IF Has(m, "round") /\ Has(m.round, "name") /\ m.round.name # ""
  THEN m.round.name ELSE "N/A"

\* match.state?.state?.toUpperCase() || "N/A"
Status(m) ==
  IF Has(m, "state") /\ Has(m.state, "state") /\ toUpperCase(m.state.state) # ""
  THEN toUpperCase(m.state.state) ELSE "N/A"

\* match.state?.state === 'live'
IsLive(m) == Has(m, "state") /\ Has(m.state, "state") /\ m.state.state = "live"

\* The livescores callback throws a TypeError: participants or scores is
\* missing, or a participant read by find has no meta
MatchThrows(m) ==
  \/ ~Has(m, "participants")
  \/ FindThrows(m.participants, "home")
  \/ FindThrows(m.participants, "away")
  \/ ~Has(m, "scores")

\* The shaped live match, for a match on which the callback does not throw
ShapeMatch(m) ==
  LET localTeam == FindParticipant(m.participants, "home")
      visitorTeam == FindParticipant(m.participants, "away")
      localTeamScore == FindScore(m.scores, localTeam)
      visitorTeamScore == FindScore(m.scores, visitorTeam)
  IN Opt("id", m, "id") @@ Opt("league_id", m, "league_id")
     @@ [round |-> RoundName(m)]
     @@ Opt("localteam_id", localTeam, "id")
     @@ Opt("visitorteam_id", visitorTeam, "id")
     @@ Opt("starting_at", m, "starting_at")
     @@ [status |-> Status(m)]
     @@ Opt("minute", FindPeriod(m), "minutes")
     @@ [live |-> IsLive(m),
         scores |-> << Opt("team_id", localTeam, "id")
                         @@ [score |-> GoalsOr0(localTeamScore)],
                       Opt("team_id", visitorTeam, "id")
                         @@ [score |-> GoalsOr0(visitorTeamScore)] >>,
         participants |-> m.participants]

\* The fixtures callback reads participants only
FixtureThrows(f) ==
  \/ ~Has(f, "participants")
  \/ FindThrows(f.participants, "home")
  \/ FindThrows(f.participants, "away")

\* The shaped fixture, for a fixture on which the callback does not throw
ShapeFixture(f) ==
  LET localTeam == FindParticipant(f.participants, "home")
      visitorTeam == FindParticipant(f.participants, "away")
  IN Opt("id", f, "id") @@ Opt("league_id", f, "league_id")
     @@ Opt("round", f, "round")
     @@ Opt("starting_at", f, "starting_at")
     @@ [status |-> Status(f),
         live |-> FALSE,
         participants |-> f.participants,
         scores |-> << Opt("participant_id", localTeam, "id") @@ [goals |-> 0],
                       Opt("participant_id", visitorTeam, "id") @@ [goals |-> 0] >>]

(***************************************************************************)
(* NodeCache({ stdTTL: 60 * 15, checkperiod: 120 }), options otherwise     *)
(* default (deleteOnExpire).  Values are cloned on set and on get; a clone *)
(* of JSON data equals its original, so values are kept as they are.       *)
(***************************************************************************)
\* Mutant: the livetime is the ttl alone, Date.now() is not added
WrapForgetsNow(value, t0) == [v |-> value, t |-> TTLms]

\* _wrap: { t: Date.now() + stdTTL * 1000, v: value }
Wrap(value, t0) == [v |-> value, t |-> t0 + TTLms]

\* Mutant: set appends to the list already stored under the key
SetMerges(d, key, value, t0) ==
  [k \in (DOMAIN d) \cup {key} |->
     IF k = key
     THEN Wrap(IF key \in DOMAIN d THEN d[key].v \o value ELSE value, t0)
     ELSE d[k]]

\* set(key, value): replaces the whole entry of the key
Set(d, key, value, t0) ==
  [k \in (DOMAIN d) \cup {key} |-> IF k = key THEN Wrap(value, t0) ELSE d[k]]

\* _check: FALSE (and the key is deleted) when the entry's time is over, which
\* it is once Date.now() has passed t; at Date.now() = t get still returns
\* the value
Check(entry, t0) == ~(entry.t # 0 /\ entry.t < t0)

\* del(key)
Del(d, key) == [k \in (DOMAIN d) \ {key} |-> d[k]]

\* get(key) finds a value
Hit(d, key, t0) == key \in DOMAIN d /\ Check(d[key], t0)

\* Mutant: get returns whatever is stored, expired or not
GetIgnoresExpiry(d, key, t0) == IF key \in DOMAIN d THEN d[key].v ELSE <<>>

\* appCache.get(key) || []
GetOrEmpty(d, key, t0) == IF Hit(d, key, t0) THEN d[key].v ELSE <<>>

\* the store after get(key): an entry found expired is deleted
AfterGet(d, key, t0) ==
  IF key \in DOMAIN d /\ ~Check(d[key], t0) THEN Del(d, key) ELSE d

\* Mutant: the sweep flushes every key
CheckDataFlushes(d, t0) == NoObj

\* _checkData: the periodic sweep runs _check on every key
CheckData(d, t0) == [k \in {x \in DOMAIN d : Check(d[x], t0)} |-> d[k]]

(***************************************************************************)
(* Upstream: what axios.get resolves or rejects with.                      *)
(***************************************************************************)
League1 == [id |-> 1, name |-> "Premier", image_path |-> "pl.png", country_id |-> 462]
League2 == [id |-> 2, name |-> "Liga"]

Home10 == [id |-> 10, name |-> "Reds", meta |-> [location |-> "home"]]
Away20 == [id |-> 20, name |-> "Blues", meta |-> [location |-> "away"]]

Match1 ==
  [id |-> 100, league_id |-> 1, starting_at |-> "2024-05-01 18:00:00",
   round |-> [name |-> "12"], state |-> [state |-> "live"],
   participants |-> <<Home10, Away20>>,
   scores |-> <<[participant_id |-> 10, goals |-> 2], [participant_id |-> 20, goals |-> 1]>>,
   periods |-> <<[type |-> "1hg", minutes |-> 45], [type |-> "2hg", minutes |-> 67]>>]

\* a record whose relations were not included
Match2 == [id |-> 101, league_id |-> 1, starting_at |-> "2024-05-01 20:00:00"]

\* the lists upstream may send for a task
UpstreamLists(k) ==
  IF k \in {"leagues", "teams"}
  THEN {<<League1>>, <<League2, League1>>}
  ELSE {<<Match1>>, <<Match1, Match2>>}

\* kind "network": no response; "status": a non-2xx response with a message;
\* "ok": a 2xx response with this body
UpstreamResponses(k) ==
  {[kind |-> "network"], [kind |-> "status"]}
  \cup {[kind |-> "ok", body |-> [message |-> "no data"]]}
  \cup {[kind |-> "ok", body |-> [data |-> l]] : l \in UpstreamLists(k)}

(***************************************************************************)
(* The fetch functions, from the upstream answer on (after the await).     *)
(* Each gives the store it leaves.                                         *)
(***************************************************************************)
\* Mutant: (data.data || []).map(...), a body without data caches []
fetchFootballLeaguesDefaultsEmpty(d, r, t0) ==
  IF r.kind = "ok"
  THEN Set(d, "leagues", IF Has(r.body, "data") THEN ProjectAll(r.body.data) ELSE <<>>, t0)
  ELSE d

\* data.data.map(...) throws when the body has no data; the catch logs
fetchFootballLeagues(d, r, t0) ==
  IF r.kind = "ok" /\ Has(r.body, "data")
  THEN Set(d, "leagues", ProjectAll(r.body.data), t0) ELSE d

\* Mutant: teams are cached only while none are cached
fetchFootballTeamsKeepsCached(d, r, t0) ==
  IF r.kind = "ok" /\ Has(r.body, "data") /\ "teams" \notin DOMAIN d
  THEN Set(d, "teams", ProjectAll(r.body.data), t0) ELSE d

fetchFootballTeams(d, r, t0) ==
  IF r.kind = "ok" /\ Has(r.body, "data")
  THEN Set(d, "teams", ProjectAll(r.body.data), t0) ELSE d

\* data.data || []
DataOrEmpty(body) == IF Has(body, "data") THEN body.data ELSE <<>>

\* Mutant: the live matches are stored under the key of the fixtures
fetchFootballLiveScoresWrongKey(d, r, t0) ==
  IF r.kind = "ok" THEN Set(d, "fixtures", DataOrEmpty(r.body), t0) ELSE d

fetchFootballLiveScores(d, r, t0) ==
  IF r.kind = "ok" THEN Set(d, "liveScores", DataOrEmpty(r.body), t0) ELSE d

\* Mutant: the catch block resets the cached list
fetchFootballFixturesClearsOnError(d, r, t0) ==
  Set(d, "fixtures", IF r.kind = "ok" THEN DataOrEmpty(r.body) ELSE <<>>, t0)

fetchFootballFixtures(d, r, t0) ==
  IF r.kind = "ok" THEN Set(d, "fixtures", DataOrEmpty(r.body), t0) ELSE d

Fetch(k, d, r, t0) ==
  CASE k = "leagues"    -> fetchFootballLeagues(d, r, t0)
    [] k = "teams"      -> fetchFootballTeams(d, r, t0)
    [] k = "liveScores" -> fetchFootballLiveScores(d, r, t0)
    [] k = "fixtures"   -> fetchFootballFixtures(d, r, t0)

\* the console line of the fetch: console.log in the try, console.error in the catch
FetchLog(k, r) ==
  IF r.kind = "ok" /\ (k \in {"leagues", "teams"} => Has(r.body, "data"))
  THEN "cached" ELSE "error"

(***************************************************************************)
(* The route handlers.  A TypeError thrown in a handler reaches Express'   *)
(* default error handler, which answers 500.                               *)
(***************************************************************************)
getLiveScores(d, t0) ==
  LET liveScores == GetOrEmpty(d, "liveScores", t0)
  IN IF \E i \in 1..Len(liveScores) : MatchThrows(liveScores[i])
     THEN [status |-> 500]
     ELSE [status |-> 200,
           body |-> [data |-> [i \in 1..Len(liveScores) |-> ShapeMatch(liveScores[i])]]]

getFixtures(d, t0) ==
  LET fixtures == GetOrEmpty(d, "fixtures", t0)
  IN IF \E i \in 1..Len(fixtures) : FixtureThrows(fixtures[i])
     THEN [status |-> 500]
     ELSE [status |-> 200,
           body |-> [data |-> [i \in 1..Len(fixtures) |-> ShapeFixture(fixtures[i])]]]

getTeams(d, t0) == [status |-> 200, body |-> [data |-> GetOrEmpty(d, "teams", t0)]]

getLeagues(d, t0) == [status |-> 200, body |-> [data |-> GetOrEmpty(d, "leagues", t0)]]

\* the handler of the endpoint that serves key k
Handle(k, d, t0) ==
  CASE k = "liveScores" -> getLiveScores(d, t0)
    [] k = "fixtures"   -> getFixtures(d, t0)
    [] k = "teams"      -> getTeams(d, t0)
    [] k = "leagues"    -> getLeagues(d, t0)

\* storedAt after a step that leaves the cache as d2 and in which appCache.set
\* was called for the keys written
Stamped(d2, written) ==
  [k \in DOMAIN d2 |-> IF k \in written \/ k \notin DOMAIN storedAt THEN now ELSE storedAt[k]]

(***************************************************************************)
(* The process.                                                            *)
(***************************************************************************)
Started == initAwait # "unstarted"

\* new NodeCache(...): empty store, the first sweep scheduled
Init ==
  /\ API_TOKEN \in BOOLEAN
  /\ now = 0
  /\ data = NoObj
  /\ storedAt = NoObj
  /\ checkDue = checkperiod * 1000
  /\ initAwait = "unstarted"
  /\ timerDue = [k \in Keys |-> 0]
  /\ pending = {}
  /\ ticks = 0
  /\ input = NoObj
  /\ output = NoObj
  /\ health = NoObj

\* Mutant: initializeData starts the four fetches without awaiting each
StartupAllAtOnce ==
  /\ initAwait = "unstarted"
  /\ IF API_TOKEN
     THEN /\ initAwait' = InitOrder[1]
          /\ pending' = {[task |-> k, origin |-> "init", at |-> now] : k \in Keys}
     ELSE /\ initAwait' = "done"
          /\ pending' = {}
  /\ timerDue' = [k \in Keys |-> now + Interval(k)]
  /\ UNCHANGED <<input, output, health, API_TOKEN, now, data, checkDue, ticks, storedAt>>

\* The module body: initializeData() runs up to its first await, then the
\* four setInterval calls.  Without a token every fetch returns at once and
\* initializeData completes before anything else runs.
Startup ==
  /\ initAwait = "unstarted"
  /\ IF API_TOKEN
     THEN /\ initAwait' = InitOrder[1]
          /\ pending' = {[task |-> InitOrder[1], origin |-> "init", at |-> now]}
     ELSE /\ initAwait' = "done"
          /\ pending' = {}
  /\ timerDue' = [k \in Keys |-> now + Interval(k)]
  /\ UNCHANGED <<input, output, health, API_TOKEN, now, data, checkDue, ticks, storedAt>>

\* the tasks whose setInterval timer has expired
Due == {k \in Keys : now >= timerDue[k]}

\* NodeCache's checkperiod timeout has expired
SweepDue == now >= checkDue

\* the timeout's callback, _checkData, when it has expired: the store it leaves
Swept(d) == IF SweepDue THEN CheckData(d, now) ELSE d

\* _checkData re-arms the timeout
NextCheck == IF SweepDue THEN now + checkperiod * 1000 ELSE checkDue

\* how many of n new calls the model follows
Followed(n) ==
  IF n <= MaxPending - Cardinality(pending) THEN n ELSE MaxPending - Cardinality(pending)

\* variant: a timer callback waits until no earlier call is in flight
TimersFireWaitsForPrevious(S) ==
  /\ Started
  /\ pending = {}
  /\ (Due # {} \/ SweepDue)
  /\ S \subseteq Due
  /\ timerDue' = [k \in Keys |-> IF k \in Due THEN now + Interval(k) ELSE timerDue[k]]
  /\ IF API_TOKEN
     THEN /\ Cardinality(S) = Followed(Cardinality(Due))
          /\ pending' = pending \cup {[task |-> k, origin |-> "timer", at |-> now] : k \in S}
     ELSE /\ S = {}
          /\ pending' = pending
  /\ data' = Swept(data)
  /\ storedAt' = Stamped(data', {})
  /\ checkDue' = NextCheck
  /\ UNCHANGED <<input, output, health, API_TOKEN, now, initAwait, ticks>>

\* Mutant: the fetch functions do not look at API_TOKEN
TimersFireWithoutToken(S) ==
  /\ Started
  /\ (Due # {} \/ SweepDue)
  /\ S \subseteq Due
  /\ timerDue' = [k \in Keys |-> IF k \in Due THEN now + Interval(k) ELSE timerDue[k]]
  /\ Cardinality(S) = Followed(Cardinality(Due))
  /\ pending' = pending \cup {[task |-> k, origin |-> "timer", at |-> now] : k \in S}
  /\ data' = Swept(data)
  /\ storedAt' = Stamped(data', {})
  /\ checkDue' = NextCheck
  /\ UNCHANGED <<input, output, health, API_TOKEN, now, initAwait, ticks>>

\* The timers phase of the event loop, which runs every expired timer before
\* any request or upstream answer is handled: each expired setInterval timer
\* is re-armed and runs its fetch function up to the await, and NodeCache's
\* checkperiod timeout, when expired, sweeps the store.  S are the calls the
\* model follows: as many as MaxPending allows; the others are calls that
\* upstream never answers.
TimersFire(S) ==
  /\ Started
  /\ (Due # {} \/ SweepDue)
  /\ S \subseteq Due
  /\ timerDue' = [k \in Keys |-> IF k \in Due THEN now + Interval(k) ELSE timerDue[k]]
  /\ IF API_TOKEN
     THEN /\ Cardinality(S) = Followed(Cardinality(Due))
          /\ pending' = pending \cup {[task |-> k, origin |-> "timer", at |-> now] : k \in S}
     ELSE /\ S = {}
          /\ pending' = pending
  /\ data' = Swept(data)
  /\ storedAt' = Stamped(data', {})
  /\ checkDue' = NextCheck
  /\ UNCHANGED <<input, output, health, API_TOKEN, now, initAwait, ticks>>

\* Upstream answers call c with r: the rest of the fetch function runs, and
\* for a startup call initializeData goes on to its next fetch
Respond(c, r) ==
  /\ c \in pending
  /\ data' = Fetch(c.task, data, r, now)
  /\ storedAt' = Stamped(data', IF FetchLog(c.task, r) = "cached" THEN {c.task} ELSE {})
  /\ IF c.origin = "init"
     THEN IF InitIndex(c.task) < Len(InitOrder)
          THEN LET next == InitOrder[InitIndex(c.task) + 1]
               IN /\ initAwait' = next
                  /\ pending' = (pending \ {c})
                                  \cup {[task |-> next, origin |-> "init", at |-> now]}
          ELSE /\ initAwait' = "done"
               /\ pending' = pending \ {c}
     ELSE /\ initAwait' = initAwait
          /\ pending' = pending \ {c}
  /\ UNCHANGED <<input, output, health, API_TOKEN, now, checkDue, timerDue, ticks>>

\* Mutant: a handler whose key is absent fetches from upstream itself
RequestFetchesOnMiss(k) ==
  /\ Started
  /\ data' = AfterGet(data, k, now)
  /\ storedAt' = Stamped(data', {})
  /\ pending' = IF ~Hit(data, k, now) /\ Cardinality(pending) < MaxPending
                THEN pending \cup {[task |-> k, origin |-> "timer", at |-> now]}
                ELSE pending
  /\ UNCHANGED <<input, output, health, API_TOKEN, now, checkDue, initAwait, timerDue, ticks>>

\* GET /api/football/<k>: the response is Handle(k, data, now); get deletes
\* the entry it finds expired
Request(k) ==
  /\ Started
  /\ data' = AfterGet(data, k, now)
  /\ storedAt' = Stamped(data', {})
  /\ UNCHANGED <<input, output, health, API_TOKEN, now, checkDue, initAwait, timerDue, pending, ticks>>

\* the spans of time the clock advances by
Steps == {Interval("liveScores"), TTLms, Interval("leagues")}

\* Time passes, once every timer that is due has run
Tick(dt) ==
  /\ Started
  /\ ticks < MaxTicks
  /\ ~SweepDue
  /\ Due = {}
  /\ now' = now + dt
  /\ ticks' = ticks + 1
  /\ UNCHANGED <<input, output, health, API_TOKEN, data, checkDue, initAwait, timerDue, pending, storedAt>>

Next ==
  \/ Startup
  \/ \E S \in SUBSET Keys : TimersFire(S)
  \/ \E c \in pending : \E r \in UpstreamResponses(c.task) : Respond(c, r)
  \/ \E k \in Keys : Request(k)
  \/ \E dt \in Steps : Tick(dt)

Spec == Init /\ [][Next]_vars

(***************************************************************************)
(* Steps the claims speak of.                                              *)
(***************************************************************************)
\* the upstream call fails: axios.get rejects
Rejected(r) == r.kind \in {"network", "status"}

\* the response arrives but has no data field
LacksData(r) == r.kind = "ok" /\ ~Has(r.body, "data")

\* the value a fetch of task k hands to appCache.set on response r
StoredValue(k, r) ==
  IF k \in {"leagues", "teams"} THEN ProjectAll(r.body.data) ELSE DataOrEmpty(r.body)

\* what a request for k is answered with in the current state
Response(k) == Handle(k, data, now)

EmptyOk == [status |-> 200, body |-> [data |-> <<>>]]

\* the step is the answer to a call of task k that caches a value
Refreshed(k) ==
  \E c \in pending : \E r \in UpstreamResponses(k) :
    c.task = k /\ FetchLog(k, r) = "cached" /\ Respond(c, r)

\* how long ago the entry of key k was set
Age(k) == now - storedAt[k]

\* what a task can cache from one upstream response
CompleteResults(k) ==
  {StoredValue(k, r) : r \in {x \in UpstreamResponses(k) : FetchLog(k, x) = "cached"}}

\* C1: a refresh whose upstream call fails (network error or non-2xx)
\* writes nothing: the step that handles the failure leaves every key of
\* the cache, its own included, as it was.
C1_FailedRefreshWritesNothing ==
  [][\A c \in pending : \A r \in UpstreamResponses(c.task) :
       (Rejected(r) /\ Respond(c, r)) => data' = data]_vars

\* The four startup calls have all been answered at time 0; leagues was
\* cached, and the three later calls failed and left it in place.
C1_Witness ==
  /\ API_TOKEN /\ now = 0 /\ initAwait = "done"
  /\ DOMAIN data = {"leagues"}

\* C2 as claimed: for every task, a response without the data field is
\* handled as a failure and writes nothing.
C2_Original ==
  [][\A c \in pending : \A r \in UpstreamResponses(c.task) :
       (LacksData(r) /\ Respond(c, r)) => data' = data]_vars

\* C2 amended: a response without the data field writes nothing for leagues
\* and teams; for liveScores and fixtures it replaces the key's entry by the
\* empty list and leaves the other keys as they were.
C2_MissingDataPerTask ==
  [][\A c \in pending : \A r \in UpstreamResponses(c.task) :
       (LacksData(r) /\ Respond(c, r)) =>
         IF c.task \in {"leagues", "teams"}
         THEN data' = data
         ELSE /\ DOMAIN data' = (DOMAIN data) \cup {c.task}
              /\ data'[c.task] = [v |-> <<>>, t |-> now + TTLms]
              /\ \A k \in (DOMAIN data) \ {c.task} : data'[k] = data[k]]_vars

\* Startup is over at time 0 with the empty list cached for liveScores and
\* fixtures (upstream sends no empty list here, only bodies without data)
\* and nothing for leagues and teams.
C2_Witness ==
  /\ API_TOKEN /\ now = 0 /\ initAwait = "done"
  /\ DOMAIN data = {"liveScores", "fixtures"}
  /\ data["liveScores"].v = <<>> /\ data["fixtures"].v = <<>>

\* C3 (as claimed): a read never returns a value whose age since its last
\* set is at or beyond the 900 s TTL: once 900 s have elapsed since the last
\* set of a key get returns absent, whether or not the sweep has removed the
\* entry.
C3_Claim ==
  \A k \in DOMAIN data :
    Age(k) >= 900 * 1000 =>
      /\ ~Hit(data, k, now)
      /\ GetOrEmpty(data, k, now) = <<>>
      /\ Response(k) = EmptyOk

\* C4 as claimed: a value that reads return keeps being returned, unchanged,
\* by every step that is not a successful refresh of its key.
C4_Original ==
  [][\A k \in Keys :
       (Hit(data, k, now) /\ ~Refreshed(k)) =>
         (Hit(data', k, now') /\ data'[k].v = data[k].v)]_vars

\* C4 amended: a value that reads return keeps being returned, unchanged,
\* by every step that is not a successful refresh of its key, failed
\* refreshes included, until more than 900 s (its TTL) have passed; from
\* then on reads
\* of the key return nothing (the empty list) until the next successful
\* refresh.
C4_ServedUntilRefreshOrExpiry ==
  [][\A k \in Keys :
       (Hit(data, k, now) /\ ~Refreshed(k)) =>
         IF now' - storedAt[k] > TTLms
         THEN ~Hit(data', k, now') /\ GetOrEmpty(data', k, now') = <<>>
         ELSE Hit(data', k, now') /\ data'[k] = data[k]]_vars

\* The liveScores value written at startup is still served 15 s later, after
\* the first periodic refresh ran and its call was answered by a failure
\* (nothing is in flight, and the entry is the one of startup).
C4_Witness ==
  /\ API_TOKEN /\ initAwait = "done" /\ pending = {}
  /\ now = Interval("liveScores")
  /\ timerDue["liveScores"] = 2 * Interval("liveScores")
  /\ Hit(data, "liveScores", now) /\ Age("liveScores") = now

\* C5: a get right after a successful set (same instant, no other set)
\* returns exactly the value that the refresh handed to set.
C5_GetAfterSet ==
  [][\A c \in pending : \A r \in UpstreamResponses(c.task) :
       (FetchLog(c.task, r) = "cached" /\ Respond(c, r)) =>
         /\ Hit(data', c.task, now')
         /\ GetOrEmpty(data', c.task, now') = StoredValue(c.task, r)]_vars

\* A key set at this instant, an hour after startup, is read back.
C5_Witness ==
  \E k \in DOMAIN data :
    /\ now = Interval("leagues") /\ Age(k) = 0
    /\ GetOrEmpty(data, k, now) \in CompleteResults(k)

\* C6: the value held for a key, and the value a reader gets, is the whole
\* result of one upstream response (or nothing): never a mix of two
\* refreshes, never part of one.
C6_WholeEntries ==
  \A k \in Keys :
    /\ k \in DOMAIN data => data[k].v \in CompleteResults(k)
    /\ GetOrEmpty(data, k, now) \in CompleteResults(k) \cup {<<>>}

\* liveScores holds a two-record list written by a periodic refresh.
C6_Witness ==
  /\ "liveScores" \in DOMAIN data
  /\ now > 0 /\ Age("liveScores") = 0
  /\ Len(data["liveScores"].v) = 2

\* the order in which initializeData moves from one await to the next
InitSteps ==
  {<<"unstarted", InitOrder[1]>>, <<"unstarted", "done">>, <<InitOrder[4], "done">>}
  \cup {<<InitOrder[i], InitOrder[i + 1]>> : i \in 1..3}

\* the startup fetches run one after the other, in order: the only startup
\* call in flight is the awaited one, and the await moves on, to the next
\* task in order, in the step that answers it
InitInOrder ==
  /\ \A c \in pending' : c.origin = "init" => c.task = initAwait'
  /\ initAwait' # initAwait =>
       /\ <<initAwait, initAwait'>> \in InitSteps
       /\ initAwait \in Keys =>
            \E c \in pending : c.origin = "init" /\ c.task = initAwait /\ c \notin pending'

\* the step runs expired setInterval timers
TimersPhase == Due # {} /\ \E S \in SUBSET Keys : TimersFire(S)

\* C7 as claimed: the startup fetches run in order, one after the other, and
\* no periodic invocation starts before the startup fixtures fetch is over.
C7_Original ==
  [][InitInOrder /\ (TimersPhase => initAwait = "done")]_vars

\* C7 amended: the startup fetches run once each in the order leagues,
\* teams, liveScores, fixtures, each starting only when the one before it
\* has completed; a periodic invocation of a task starts no earlier than
\* the task's interval after startup, whether or not the startup fetches
\* are over by then.
C7_StartupInOrder ==
  [][InitInOrder /\ (TimersPhase => \A k \in Due : now >= Interval(k))]_vars

\* The liveScores timer has run while initializeData still awaits leagues.
C7_Witness ==
  /\ API_TOKEN /\ initAwait = "leagues"
  /\ timerDue["liveScores"] > Interval("liveScores")
  /\ \E c \in pending : c.origin = "timer" /\ c.task = "liveScores"

\* C8 as claimed: whatever list is cached for liveScores or fixtures, the
\* endpoints answer 200 with one shaped record per cached record.
C8_Claim ==
  \A k \in {"liveScores", "fixtures"} :
    /\ Response(k).status = 200
    /\ Len(Response(k).body.data) = Len(GetOrEmpty(data, k, now))

\* C9: without a token no refresh calls upstream or writes the cache: no
\* call is ever in flight, the four keys stay absent and the four endpoints
\* answer 200 with an empty list.
C9_NoTokenEmptyCache ==
  ~API_TOKEN =>
    /\ pending = {}
    /\ DOMAIN data = {}
    /\ \A k \in Keys : Response(k) = EmptyOk

\* Without a token, an hour after startup, all four timers have run.
C9_Witness ==
  /\ ~API_TOKEN /\ initAwait = "done"
  /\ \A k \in Keys : timerDue[k] > Interval(k)

\* C10: an endpoint whose key is absent, never set or expired, answers 200
\* with { data: [] }.
C10_AbsentKeyEmptyList ==
  \A k \in Keys : ~Hit(data, k, now) => Response(k) = EmptyOk

\* With a token: the liveScores entry has expired and is still in the store,
\* and leagues has never been cached.
C10_Witness ==
  /\ API_TOKEN /\ Started
  /\ "liveScores" \in DOMAIN data /\ ~Hit(data, "liveScores", now)
  /\ "leagues" \notin DOMAIN data

\* C11 as claimed: handling a request starts no upstream call and leaves the
\* store as it was, every key with its value and expiry.
C11_Original ==
  [][\A k \in Keys : Request(k) => (pending' = pending /\ data' = data)]_vars

\* C11 amended: a request can be handled in every state after startup,
\* whatever is in flight; handling it starts no upstream call, moves no
\* timer and leaves every entry that reads return as it was, value and
\* expiry; the one change it can make is to drop the entry of its own key
\* when it finds it expired, an entry no read returned any more.
C11_RequestFrame ==
  /\ [](Started => \A k \in Keys : ENABLED Request(k))
  /\ [][\A k \in Keys : Request(k) =>
          /\ pending' = pending /\ timerDue' = timerDue /\ now' = now
          /\ DOMAIN data' \in {DOMAIN data, (DOMAIN data) \ {k}}
          /\ \A j \in DOMAIN data' : data'[j] = data[j]
          /\ \A j \in Keys : Hit(data', j, now') <=> Hit(data, j, now)]_vars

\* A request arrives while an upstream call is in flight, one entry is served
\* and another has expired without having been swept.
C11_Witness ==
  /\ pending # {}
  /\ \E k, j \in DOMAIN data : Hit(data, k, now) /\ ~Hit(data, j, now)

(***************************************************************************)
(* Pipeline: the functions of the program on a bounded domain of upstream  *)
(* answers.  One call of a task is in flight; upstream answers it with the *)
(* input, the fetch function handles the answer, and then the endpoint of  *)
(* the task is requested.  Objects have their properties present or        *)
(* absent; strings that are present are not empty.                         *)
(***************************************************************************)
\* Lists of leagues, teams and of whole matches are at most this long.
MaxLen == 2

\* the sequences over S of length at most n
SeqsUpTo(S, n) == UNION {[1..k -> S] : k \in 0..n}

Home11 == [id |-> 11, name |-> "Whites", meta |-> [location |-> "home"]]
NoMeta30 == [id |-> 30, name |-> "Greens"]

StateOpts ==
  {NoObj, [state |-> [id |-> 5]]}
  \cup {[state |-> [state |-> s]] : s \in {"live", "finished", "NS"}}

ParticipantOpts ==
  {NoObj}
  \cup {[participants |-> ps] :
          ps \in {<<Home10, Away20>>, <<Away20, Home10>>, <<Home10>>, <<Away20>>,
                  <<>>, <<Home10, Away20, Home11>>, <<Home10, NoMeta30>>}}

ScoreOpts ==
  {NoObj}
  \cup {[scores |-> sc] :
          sc \in {<<[participant_id |-> 10, goals |-> 2], [participant_id |-> 20, goals |-> 1]>>,
                  <<[participant_id |-> 20, goals |-> 1]>>,
                  <<>>,
                  <<[participant_id |-> 10]>>,
                  <<[goals |-> 3]>>,
                  <<[participant_id |-> 10, goals |-> 0], [participant_id |-> 10, goals |-> 5],
                    [participant_id |-> 20, goals |-> 4]>>}}

RoundOpts == {NoObj, [round |-> [name |-> "12"]], [round |-> [id |-> 7]]}

PeriodOpts ==
  {NoObj}
  \cup {[periods |-> pe] :
          pe \in {<<[type |-> "1hg", minutes |-> 45]>>,
                  <<[type |-> "1hg", minutes |-> 45], [type |-> "2hg", minutes |-> 67]>>,
                  <<[type |-> "2hg"]>>}}

\* the match and fixture records upstream may send
Matches ==
  {[id |-> 100, league_id |-> 1, starting_at |-> "2024-05-01 18:00:00"]
     @@ st @@ ps @@ sc @@ ro @@ pe :
     st \in StateOpts, ps \in ParticipantOpts, sc \in ScoreOpts,
     ro \in RoundOpts, pe \in PeriodOpts}

\* the league and team records upstream may send
Summaries == {Pick(League1, fs) : fs \in SUBSET (DOMAIN League1)}

\* the lists upstream may send for a task
PipelineLists(k) ==
  IF k \in {"leagues", "teams"}
  THEN SeqsUpTo(Summaries, MaxLen)
  ELSE {<<m>> : m \in Matches} \cup SeqsUpTo({Match1, Match2}, MaxLen)

PipelineResponses(k) ==
  {[kind |-> "network"], [kind |-> "ok", body |-> [message |-> "no data"]]}
  \cup {[kind |-> "ok", body |-> [data |-> l]] : l \in PipelineLists(k)}

(***************************************************************************)
(* The route handlers of the other revision of the server (the second copy *)
(* in part_000, and server.js): the found teams and state.state are read   *)
(* without optional chaining.                                              *)
(***************************************************************************)
\* The callback throws a TypeError: as above, or localTeam.id, visitorTeam.id
\* or state.state.toUpperCase() is read of undefined
MatchThrowsUnguarded(m) ==
  \/ MatchThrows(m)
  \/ FindStops(m.participants, "home") = {}
  \/ FindStops(m.participants, "away") = {}
  \/ ~Has(m, "state")
  \/ ~Has(m.state, "state")

ShapeMatchUnguarded(m) ==
  LET localTeam == FindParticipant(m.participants, "home")
      visitorTeam == FindParticipant(m.participants, "away")
      localTeamScore == FindScore(m.scores, localTeam)
      visitorTeamScore == FindScore(m.scores, visitorTeam)
  IN Opt("id", m, "id") @@ Opt("league_id", m, "league_id")
     @@ [round |-> RoundName(m)]
     @@ Opt("localteam_id", localTeam, "id")
     @@ Opt("visitorteam_id", visitorTeam, "id")
     @@ Opt("starting_at", m, "starting_at")
     @@ [status |-> toUpperCase(m.state.state)]
     @@ Opt("minute", FindPeriod(m), "minutes")
     @@ [live |-> (m.state.state = "live"),
         scores |-> << Opt("team_id", localTeam, "id")
                         @@ [score |-> GoalsOr0(localTeamScore)],
                       Opt("team_id", visitorTeam, "id")
                         @@ [score |-> GoalsOr0(visitorTeamScore)] >>,
         participants |-> m.participants]

FixtureThrowsUnguarded(f) ==
  \/ FixtureThrows(f)
  \/ FindStops(f.participants, "home") = {}
  \/ FindStops(f.participants, "away") = {}
  \/ ~Has(f, "state")
  \/ ~Has(f.state, "state")

ShapeFixtureUnguarded(f) ==
  LET localTeam == FindParticipant(f.participants, "home")
      visitorTeam == FindParticipant(f.participants, "away")
  IN Opt("id", f, "id") @@ Opt("league_id", f, "league_id")
     @@ Opt("round", f, "round")
     @@ Opt("starting_at", f, "starting_at")
     @@ [status |-> toUpperCase(f.state.state),
         live |-> FALSE,
         participants |-> f.participants,
         scores |-> << Opt("participant_id", localTeam, "id") @@ [goals |-> 0],
                       Opt("participant_id", visitorTeam, "id") @@ [goals |-> 0] >>]

getLiveScoresUnguarded(d, t0) ==
  LET liveScores == GetOrEmpty(d, "liveScores", t0)
  IN IF \E i \in 1..Len(liveScores) : MatchThrowsUnguarded(liveScores[i])
     THEN [status |-> 500]
     ELSE [status |-> 200,
           body |-> [data |-> [i \in 1..Len(liveScores) |->
                                 ShapeMatchUnguarded(liveScores[i])]]]

getFixturesUnguarded(d, t0) ==
  LET fixtures == GetOrEmpty(d, "fixtures", t0)
  IN IF \E i \in 1..Len(fixtures) : FixtureThrowsUnguarded(fixtures[i])
     THEN [status |-> 500]
     ELSE [status |-> 200,
           body |-> [data |-> [i \in 1..Len(fixtures) |->
                                 ShapeFixtureUnguarded(fixtures[i])]]]

\* the revisions of the route handlers
Revisions == {"guarded", "unguarded"}

\* the handler of the endpoint of key k in revision rev
HandleIn(rev, k, d, t0) ==
  IF rev = "guarded" THEN Handle(k, d, t0)
  ELSE CASE k = "liveScores" -> getLiveScoresUnguarded(d, t0)
         [] k = "fixtures"   -> getFixturesUnguarded(d, t0)
         [] k = "teams"      -> getTeams(d, t0)
         [] k = "leagues"    -> getLeagues(d, t0)

\* The server has started with a token, and one call of a task is in flight
PipelineInit ==
  /\ API_TOKEN = TRUE
  /\ now = 0
  /\ data = NoObj
  /\ storedAt = NoObj
  /\ checkDue = checkperiod * 1000
  /\ initAwait = "done"
  /\ timerDue = [k \in Keys |-> Interval(k)]
  /\ ticks = 0
  /\ \E k \in Keys :
       /\ pending = {[task |-> k, origin |-> "timer", at |-> 0]}
       /\ \E r \in PipelineResponses(k) : \E rev \in Revisions :
            input = [task |-> k, r |-> r, rev |-> rev]
  /\ output = NoObj
  /\ health = NoObj

\* upstream answers the call with the input
Answer == \E c \in pending : Respond(c, input.r)

\* GET /api/football/<task>, after the answer
Serve ==
  /\ pending = {}
  /\ output = NoObj
  /\ output' = HandleIn(input.rev, input.task, data, now)
  /\ data' = AfterGet(data, input.task, now)
  /\ storedAt' = Stamped(data', {})
  /\ UNCHANGED <<API_TOKEN, now, checkDue, initAwait, timerDue, pending, ticks, input,
                 health>>

PipelineNext == Answer \/ Serve

Pipeline == PipelineInit /\ [][PipelineNext]_vars

\* the endpoint has answered
Served == output # NoObj

\* the list the input carries, <<>> when it carries none
InputList == IF input.r.kind = "ok" THEN DataOrEmpty(input.r.body) ELSE <<>>

\* record m has a participant playing at loc, and every participant has meta
HasSide(m, loc) ==
  /\ Has(m, "participants")
  /\ \A i \in 1..Len(m.participants) : Has(m.participants[i], "meta")
  /\ \E i \in 1..Len(m.participants) : IsLocation(m.participants[i], loc)

\* the first participant of m playing at loc
Side(m, loc) ==
  m.participants[First({i \in 1..Len(m.participants) : IsLocation(m.participants[i], loc)})]

\* the goals of the first score entry of m that carries this id, 0 when no
\* entry carries it or the entry has no goals
GoalsFor(m, id) ==
  LET hits == {i \in 1..Len(m.scores) :
                 Has(m.scores[i], "participant_id") /\ m.scores[i].participant_id = id}
  IN IF hits = {} \/ ~Has(m.scores[First(hits)], "goals") THEN 0
     ELSE m.scores[First(hits)].goals

\* m has state.state
HasState(m) == Has(m, "state") /\ Has(m.state, "state")

\* a match with a home and an away participant and a list of scores
LiveMatch(m) == HasSide(m, "home") /\ HasSide(m, "away") /\ Has(m, "scores")

\* C12: a live match with a home and an away participant is shaped with
\* status the upper-cased state.state, live true exactly when state.state
\* is "live", and scores <<[team_id: home id, score: goals of the entry of
\* the home id], [team_id: away id, score: goals of the entry of the away
\* id]>>, a score being 0 when no entry carries the id.  In both revisions of
\* the handler.
C12_LiveMatchShaped ==
  (Served /\ input.task = "liveScores"
     /\ \A i \in 1..Len(InputList) : LiveMatch(InputList[i]) /\ HasState(InputList[i])) =>
    /\ output.status = 200
    /\ Len(output.body.data) = Len(InputList)
    /\ \A i \in 1..Len(InputList) :
         LET m == InputList[i]
             s == output.body.data[i]
             home == Side(m, "home")
             away == Side(m, "away")
         IN /\ s.status = toUpperCase(m.state.state)
            /\ s.live = (m.state.state = "live")
            /\ s.scores = << [team_id |-> home.id, score |-> GoalsFor(m, home.id)],
                             [team_id |-> away.id, score |-> GoalsFor(m, away.id)] >>

\* A live match listing the away side first, with a score entry for the away
\* side only, was served as LIVE with scores 0 and 1.
C12_Witness ==
  /\ Served /\ input.task = "liveScores" /\ Len(InputList) = 1
  /\ input.rev = "unguarded"
  /\ LiveMatch(InputList[1]) /\ HasState(InputList[1])
  /\ InputList[1].participants = <<Away20, Home10>>
  /\ InputList[1].scores = <<[participant_id |-> 20, goals |-> 1]>>
  /\ output.status = 200
  /\ output.body.data[1].status = "LIVE" /\ output.body.data[1].live
  /\ output.body.data[1].scores = <<[team_id |-> 10, score |-> 0], [team_id |-> 20, score |-> 1]>>

\* record m has a list of participants, each with meta
HasParticipants(m) ==
  /\ Has(m, "participants")
  /\ \A i \in 1..Len(m.participants) : Has(m.participants[i], "meta")

\* C13 as claimed: a fixture is shaped with live false and scores
\* <<[participant_id: home id, goals: 0], [participant_id: away id, goals:
\* 0]>> whatever its state and its score data, with status the upper-cased
\* state.state ("N/A" without one) and with round as upstream sent it.  Here
\* for the fixtures whose participants are a list of entries with meta.
C13_Claim ==
  (Served /\ input.task = "fixtures"
     /\ \A i \in 1..Len(InputList) : HasParticipants(InputList[i])) =>
    /\ output.status = 200
    /\ Len(output.body.data) = Len(InputList)
    /\ \A i \in 1..Len(InputList) :
         LET f == InputList[i]
             s == output.body.data[i]
         IN /\ s.live = FALSE
            /\ Len(s.scores) = 2
            /\ \A j \in 1..2 : s.scores[j].goals = 0
            /\ HasSide(f, "home") =>
                 s.scores[1] = [participant_id |-> Side(f, "home").id, goals |-> 0]
            /\ HasSide(f, "away") =>
                 s.scores[2] = [participant_id |-> Side(f, "away").id, goals |-> 0]
            /\ s.status = IF HasState(f) THEN toUpperCase(f.state.state) ELSE "N/A"
            /\ Has(s, "round") = Has(f, "round")
            /\ Has(f, "round") => s.round = f.round

\* m has a period of type "2hg"
HasSecondHalf(m) ==
  Has(m, "periods")
    /\ \E i \in 1..Len(m.periods) : Has(m.periods[i], "type") /\ m.periods[i].type = "2hg"

\* C14 as claimed: a match with a home and an away participant and a list of
\* scores is shaped without error whichever optional field is missing: round
\* is the round's name, "N/A" without one; without state status is "N/A" and
\* live is false; without periods, or without a period of type "2hg", minute
\* is absent.
C14_Claim ==
  (Served /\ input.task = "liveScores"
     /\ \A i \in 1..Len(InputList) : LiveMatch(InputList[i])) =>
    /\ output.status = 200
    /\ Len(output.body.data) = Len(InputList)
    /\ \A i \in 1..Len(InputList) :
         LET m == InputList[i]
             s == output.body.data[i]
         IN /\ s.round = IF Has(m, "round") /\ Has(m.round, "name") THEN m.round.name ELSE "N/A"
            /\ ~Has(m, "state") => s.status = "N/A" /\ s.live = FALSE
            /\ ~HasSecondHalf(m) => ~Has(s, "minute")

\* m has participants, each with meta, and none of them plays at loc
LacksSide(m, loc) == HasParticipants(m) /\ ~HasSide(m, loc)

\* C15 as claimed: a match (with a list of scores) or a fixture whose
\* participants have no home entry, or no away entry, is shaped without
\* error, with the id fields of the missing side absent (localteam_id or
\* visitorteam_id, and team_id or participant_id inside scores) and with
\* score 0 for the missing side.
C15_Claim ==
  (Served /\ input.task \in {"liveScores", "fixtures"}
     /\ \A i \in 1..Len(InputList) :
          /\ HasParticipants(InputList[i])
          /\ input.task = "liveScores" => Has(InputList[i], "scores")) =>
    /\ output.status = 200
    /\ Len(output.body.data) = Len(InputList)
    /\ \A i \in 1..Len(InputList) :
         LET m == InputList[i]
             s == output.body.data[i]
         IN IF input.task = "liveScores"
            THEN /\ LacksSide(m, "home") =>
                      ~Has(s, "localteam_id") /\ s.scores[1] = [score |-> 0]
                 /\ LacksSide(m, "away") =>
                      ~Has(s, "visitorteam_id") /\ s.scores[2] = [score |-> 0]
            ELSE /\ LacksSide(m, "home") => s.scores[1] = [goals |-> 0]
                 /\ LacksSide(m, "away") => s.scores[2] = [goals |-> 0]

\* C16: on a successful upstream response the liveScores and fixtures tasks
\* store the upstream list as it came, the same records in the same order,
\* and the empty list when the response carries no list; the leagues and
\* teams tasks store one record per upstream record, in upstream order, made
\* of the id, name and image_path of the upstream record, unchanged.
C16_StoredAsSent ==
  (pending = {} /\ input.r.kind = "ok") =>
    IF input.task \in {"liveScores", "fixtures"}
    THEN /\ input.task \in DOMAIN data
         /\ data[input.task].v =
              (IF Has(input.r.body, "data") THEN input.r.body.data ELSE <<>>)
    ELSE Has(input.r.body, "data") =>
           /\ input.task \in DOMAIN data
           /\ Len(data[input.task].v) = Len(input.r.body.data)
           /\ \A i \in 1..Len(input.r.body.data) :
                LET x == input.r.body.data[i]
                    y == data[input.task].v[i]
                IN /\ DOMAIN y \subseteq {"id", "name", "image_path"}
                   /\ \A f \in {"id", "name", "image_path"} :
                        /\ Has(y, f) <=> Has(x, f)
                        /\ Has(x, f) => y[f] = x[f]

\* The teams task stored the summaries of two different upstream records, the
\* first of them with a field beyond id, name and image_path.
C16_Witness ==
  /\ pending = {} /\ input.task = "teams" /\ Len(InputList) = 2
  /\ InputList[1] = League1 /\ InputList[2] = [id |-> 1]
  /\ "teams" \in DOMAIN data
  /\ data["teams"].v = <<[id |-> 1, name |-> "Premier", image_path |-> "pl.png"], [id |-> 1]>>

\* Call c started at time 0, before every timer, and is still in flight,
\* while the entry of its task was written after time 0: by an invocation of
\* the task that started later than c.
CachedIsLater(c) ==
  /\ c.at = 0
  /\ c.task \in DOMAIN data
  /\ data[c.task].t > TTLms

\* C17 as claimed: the cache never moves from the result of a later-started
\* invocation of a task back to the result of an earlier-started one: the
\* answer to a call that started before the invocation whose result is
\* cached leaves the cached value in place.
C17_Original ==
  [][\A c \in pending : \A r \in UpstreamResponses(c.task) :
       (Respond(c, r) /\ CachedIsLater(c)) =>
         (c.task \in DOMAIN data' /\ data'[c.task].v = data[c.task].v)]_vars

\* C17 amended: the runs of a task take effect in the order in which their
\* upstream calls are answered: every successful answer replaces the entry
\* of the key by its own result, whichever invocation wrote the entry and
\* whichever other calls of the task are in flight, which stay in flight.
C17_AnswerOrder ==
  [][\A c \in pending : \A r \in UpstreamResponses(c.task) :
       (Respond(c, r) /\ FetchLog(c.task, r) = "cached") =>
         /\ data'[c.task] = [v |-> StoredValue(c.task, r), t |-> now + TTLms]
         /\ \A o \in pending \ {c} : o.origin = "timer" => o \in pending']_vars

\* Two invocations of a task overlap: the earlier one, started at time 0, is
\* still in flight while the result of the later one is cached.
C17_Witness ==
  \E c \in pending : CachedIsLater(c) /\ Hit(data, c.task, now)

\* C18: a key is written by the refresh task of that key only: the step in
\* which an invocation of a task handles its answer, success or failure,
\* leaves the three other keys as they were, present or absent, value and
\* expiry; and the store never holds a key other than leagues, teams,
\* liveScores and fixtures.
C18_SingleWriter ==
  /\ [](DOMAIN data \subseteq Keys)
  /\ [][\A c \in pending : \A r \in UpstreamResponses(c.task) :
          Respond(c, r) =>
            /\ DOMAIN data' \subseteq (DOMAIN data) \cup {c.task}
            /\ \A k \in (DOMAIN data) \ {c.task} :
                 k \in DOMAIN data' /\ data'[k] = data[k]]_vars

\* A periodic refresh has written its key after startup; the entry that
\* another task wrote at startup is there with its expiry of then.
C18_Witness ==
  \E k, j \in DOMAIN data :
    /\ k # j
    /\ data[j].t = TTLms
    /\ data[k].t = now + TTLms /\ now > 0

\* an upstream answer carrying this list
OkWith(list) == [kind |-> "ok", body |-> [data |-> list]]

\* C19: the projection of the leagues and teams tasks is idempotent: the
\* records a task has stored, projected again, are the records stored, also
\* when the upstream record lacked some of id, name, image_path; a refresh
\* that is answered with the stored list stores that list.
C19_ProjectionIdempotent ==
  \A k \in {"leagues", "teams"} :
    (pending = {} /\ input.task = k /\ k \in DOMAIN data) =>
      /\ \A i \in 1..Len(data[k].v) : Project(data[k].v[i]) = data[k].v[i]
      /\ Fetch(k, data, OkWith(data[k].v), now) = data

\* The leagues task has stored the projection of a full record, which has a
\* field beyond the three, and of a record with an id only.
C19_Witness ==
  /\ pending = {} /\ input.task = "leagues" /\ "leagues" \in DOMAIN data
  /\ InputList = <<[id |-> 1], League1>>
  /\ data["leagues"].v = <<[id |-> 1], [id |-> 1, name |-> "Premier", image_path |-> "pl.png"]>>

\* ---------------------------------------------------------------------------
\* Recovery: the periodic refresh with time abstracted, for liveness.
\* setInterval fires each timer again and again for as long as the process
\* runs, and an entry leaves the cache when its TTL has run out; the clock's
\* value is left out (now stays 0), so a timer may fire at any moment and an
\* entry may expire at any moment.  Every behaviour of the program's schedule
\* is one of these behaviours.  health names the resource under study: its
\* upstream is "failing" (every answer is possible), then "recovered" (from
\* here on every answer for this resource succeeds with a list), then
\* "refreshed" (an answer received after the recovery has been handled).
\* ---------------------------------------------------------------------------

Phases == {"failing", "recovered", "refreshed"}

RecoveryInit ==
  /\ API_TOKEN = TRUE
  /\ now = 0
  /\ data = NoObj
  /\ storedAt = NoObj
  /\ checkDue = checkperiod * 1000
  /\ initAwait = "done"
  /\ timerDue = [k \in Keys |-> Interval(k)]
  /\ pending = {}
  /\ ticks = 0
  /\ input = NoObj
  /\ output = NoObj
  /\ health \in {[task |-> k, phase |-> "failing"] : k \in Keys}

\* the interval timer of k fires: the fetch function starts an upstream call
\* (one call per resource is followed at a time)
Fire(k) ==
  /\ API_TOKEN
  /\ pending' = pending \cup {[task |-> k, origin |-> "timer", at |-> now]}
  /\ UNCHANGED <<API_TOKEN, now, data, checkDue, initAwait, timerDue, ticks,
                 input, output, health, storedAt>>

\* the answers upstream can give to a call of task k in the current phase
AnswersNow(k) ==
  IF k = health.task /\ health.phase # "failing"
  THEN {r \in UpstreamResponses(k) : r.kind = "ok" /\ Has(r.body, "data")}
  ELSE UpstreamResponses(k)

\* upstream answers the call c with r and the fetch function resumes
RecoveryRespond(c, r) ==
  /\ c \in pending
  /\ r \in AnswersNow(c.task)
  /\ data' = Fetch(c.task, data, r, now)
  /\ storedAt' = Stamped(data', IF FetchLog(c.task, r) = "cached" THEN {c.task} ELSE {})
  /\ pending' = pending \ {c}
  /\ health' = IF c.task = health.task /\ health.phase = "recovered"
               THEN [health EXCEPT !.phase = "refreshed"]
               ELSE health
  /\ UNCHANGED <<API_TOKEN, now, checkDue, initAwait, timerDue, ticks, input, output>>

AnswerTask(k) ==
  \E c \in pending : c.task = k /\ \E r \in UpstreamResponses(k) : RecoveryRespond(c, r)

\* upstream recovers for the resource under study
Recover ==
  /\ health.phase = "failing"
  /\ health' = [health EXCEPT !.phase = "recovered"]
  /\ UNCHANGED <<API_TOKEN, now, data, checkDue, initAwait, timerDue, pending, ticks,
                 input, output, storedAt>>

\* the TTL of the entry of k runs out and the entry leaves the cache
Expire(k) ==
  /\ k \in DOMAIN data
  /\ data' = Del(data, k)
  /\ storedAt' = Stamped(data', {})
  /\ UNCHANGED <<API_TOKEN, now, checkDue, initAwait, timerDue, pending, ticks,
                 input, output, health>>

RecoveryNext ==
  \/ \E k \in Keys : Fire(k)
  \/ \E k \in Keys : AnswerTask(k)
  \/ Recover
  \/ \E k \in Keys : Expire(k)

\* timers keep firing and every followed call is answered
Recovery ==
  /\ RecoveryInit
  /\ [][RecoveryNext]_vars
  /\ \A k \in Keys : WF_vars(Fire(k)) /\ WF_vars(AnswerTask(k))

\* the endpoint of k returns the data of the list the cache holds under k
ReturnsCached(k) ==
  /\ Hit(data, k, now)
  /\ Response(k).status = 200
  /\ Len(Response(k).body.data) = Len(data[k].v)
  /\ \A i \in 1..Len(data[k].v) : Response(k).body.data[i].id = data[k].v[i].id

\* C20 (as claimed): with the token configured and timers and answers
\* scheduled fairly, once every upstream call for a resource succeeds with a
\* list, the key of the resource eventually is present and its endpoint
\* eventually returns the data of a response received after that point.
C20_Claim ==
  \A k \in Keys :
    (health.task = k /\ health.phase = "recovered")
      ~> (health.task = k /\ health.phase = "refreshed" /\ ReturnsCached(k))

\* ---------------------------------------------------------------------------
\* C21: a call that is never answered
\* ---------------------------------------------------------------------------

\* the call c has been in flight since before the current instant
Hung(c) == c \in pending /\ c.at < now

\* the calls a timers phase starts for the due tasks S, when all are followed
StartedNow(S) == {[task |-> k, origin |-> "timer", at |-> now] : k \in S}

\* C21: a refresh invocation whose upstream call never completes blocks no
\* other refresh.  Whatever calls are in flight, the timers phase can run as
\* soon as a timer is due; it starts a call for every due task (of the hung
\* call's task too) and re-arms the timer; a later call that succeeds writes
\* its key while the hung call stays in flight; and the startup invocations
\* are the only ones held back: the next one starts only when the startup
\* call before it is answered.
C21_HungCallBlocksOnlyStartup ==
  /\ []((Started /\ Due # {}) => ENABLED (\E S \in SUBSET Keys : TimersFire(S)))
  /\ [][/\ (timerDue' # timerDue /\ TimersPhase) =>
             /\ \A k \in Due : timerDue'[k] = now + Interval(k)
             /\ (API_TOKEN /\ Cardinality(pending) + Cardinality(Due) <= MaxPending)
                  => /\ StartedNow(Due) \subseteq pending'
                     /\ pending \subseteq pending'
        /\ \A c \in pending \ pending' : \A r \in UpstreamResponses(c.task) :
             (FetchLog(c.task, r) = "cached" /\ Respond(c, r)) =>
               /\ Hit(data', c.task, now)
               /\ data'[c.task].v = StoredValue(c.task, r)
               /\ \A o \in pending \ {c} : Hung(o) => o \in pending'
        /\ InitInOrder]_vars

\* the startup call for leagues has been in flight since time 0 and holds the
\* startup invocations of the other tasks back, while the liveScores timer
\* has fired at its interval and its call has written its key
C21_Witness ==
  /\ initAwait = "leagues"
  /\ \E c \in pending : Hung(c) /\ c.origin = "init" /\ c.task = "leagues"
  /\ timerDue["liveScores"] = 2 * Interval("liveScores")
  /\ Hit(data, "liveScores", now)
  /\ data["liveScores"].t = now + TTLms
  /\ DOMAIN data = {"liveScores"}

====
